---- MODULE Spec2Model ----
(***************************************************************************)
(* Model of app.py: create_banner and flatten_tif_to_image_in_memory.       *)
(* One run of create_banner is a sequence of steps driven by pc; the        *)
(* arguments, the files on disk and the outcome of each library call on     *)
(* each item are inputs fixed in Init.                                      *)
(***************************************************************************)
EXTENDS Integers, Sequences, FiniteSets

\* ------------------------------------------------------------ bounds
MaxItems == 4
MaxWords == 3

\* ------------------------------------------------ program constants
SpacerOffset == 150
CaptionMargin == 40
SingleLineOffset == 60
MultiLineOffset == 40
line_spacing == 40
PadX == 10
PadY == 20

\* --------------------------------------------------------- input sets
None == "None"

\* events.json: code -> {full_name, spacer_color, caption_color}; the colour
\* fields are optional (read with .get and a default).
events ==
  [e \in {"MOMD", "VLTN", "EAST"} |->
     CASE e = "MOMD" -> [full_name |-> "Mother's Day", spacer_color |-> "pink",
                         caption_color |-> "red"]
       [] e = "VLTN" -> [full_name |-> "Valentine's Day"]
       [] e = "EAST" -> [full_name |-> "Easter", spacer_color |-> "green"]]

EventCodes == {"MOMD", "VLTN", "EAST", "XXXX", None}

\* bg.png: present or not, and its pixel size when present.
CanvasSizes == {<<400, 350>>, <<301, 251>>, <<40, 200>>}
Backgrounds ==
  {[exists |-> TRUE, width |-> s[1], height |-> s[2]] : s \in CanvasSizes}
  \cup {[exists |-> FALSE, width |-> 0, height |-> 0]}

\* An item: what the file system and the library do with it, and the size of
\* the trimmed image when the conversion succeeds.
ImageSizes == {<<50, 40>>, <<400, 200>>, <<100, 300>>}
Statuses == {"missing", "convert_error", "trim_raises", "transform_raises",
             "composite_raises", "ok"}
Items ==
  [status : Statuses \ {"ok"}, size : {<<1, 1>>}] \cup [status : {"ok"}, size : ImageSizes]

\* A caption is its list of words (caption.split()); a word is its measured
\* width in pixels.
WordWidths == {30, 120, 500}
SpaceWidth == 10

Max(a, b) == IF a >= b THEN a ELSE b
Min(a, b) == IF a <= b THEN a ELSE b

SeqsUpTo(S, n) == UNION {[1..k -> S] : k \in 0..n}

\* ------------------------------------------------------------- state
VARIABLES
  item_numbers,   \* argument: the items, with what happens to each
  caption,        \* argument: the caption's words
  event_code,     \* argument: --event, None when omitted
  bg,             \* bg.png in the working directory
  pc,             \* position in create_banner
  err,            \* the exception that ended the run, "none" otherwise
  canvas_open,    \* inside `with Image(filename=background_path) as canvas`
  caption_color, spacer_color,   \* the locals of lines 68-69
  spacer,         \* the strokes drawn for the spacer line
  cols, rows, item_width, item_height,
  idx,            \* enumerate() index of the item loop
  printed,        \* messages printed, in order
  opened, closed, \* indices of the items whose Image was created / closed
  placed,         \* canvas.composite calls, in order
  lines, current_line, widx,     \* the wrap loop
  fill_color,     \* draw.fill_color of the caption Drawing
  drawn,          \* draw.text calls, in order
  saves           \* canvas.save calls

vars == <<item_numbers, caption, event_code, bg, pc, err, canvas_open,
          caption_color, spacer_color, spacer, cols, rows, item_width,
          item_height, idx, printed, opened, closed, placed, lines,
          current_line, widx, fill_color, drawn, saves>>

inputs == <<item_numbers, caption, event_code, bg>>
grid == <<cols, rows, item_width, item_height>>
colors == <<caption_color, spacer_color>>
wrap == <<lines, current_line, widx>>
buffers == <<opened, closed>>

item_count == Len(item_numbers)
canvas_width == bg.width
canvas_height == bg.height

\* dict.get(key, default)
Get(d, key, default) == IF key \in DOMAIN d THEN d[key] ELSE default

\* ------------------------------------------------------------- Init
SampleCaptions == {<<30, 120>>}
SampleItemLists ==
  {<<[status |-> "ok", size |-> <<50, 40>>]>>,
   <<[status |-> "missing", size |-> <<1, 1>>], [status |-> "ok", size |-> <<400, 200>>]>>}

Init ==
  /\ \/ /\ item_numbers \in SeqsUpTo(Items, MaxItems) \ {<<>>}
        /\ caption \in SampleCaptions
        /\ event_code = "MOMD"
        /\ bg \in {b \in Backgrounds : b.exists /\ b.width > 300}
     \/ /\ item_numbers \in SampleItemLists
        /\ caption \in SeqsUpTo(WordWidths, MaxWords)
        /\ event_code \in EventCodes
        /\ bg \in Backgrounds
  /\ pc = "event"
  /\ err = "none"
  /\ canvas_open = FALSE
  /\ caption_color = None /\ spacer_color = None
  /\ spacer = <<>>
  /\ cols = 0 /\ rows = 0 /\ item_width = 0 /\ item_height = 0
  /\ idx = 0
  /\ printed = <<>>
  /\ opened = {} /\ closed = {}
  /\ placed = <<>>
  /\ lines = <<>> /\ current_line = <<>> /\ widx = 0
  /\ fill_color = None
  /\ drawn = <<>>
  /\ saves = 0

\* An exception leaves create_banner; the `with` of line 78 closes the canvas.
Raise(e) ==
  /\ pc' = "failed"
  /\ err' = e
  /\ canvas_open' = FALSE

\* ------------------------------------------- lines 61-70: event lookup
EventKnown == event_code \in DOMAIN events

CheckEvent ==
  /\ pc = "event"
  /\ IF ~EventKnown
       THEN /\ Raise("ValueError")
            /\ UNCHANGED colors
       ELSE /\ caption_color' = Get(events[event_code], "spacer_color", "gray")
            /\ spacer_color' = Get(events[event_code], "caption_color", "black")
            /\ pc' = "background"
            /\ UNCHANGED <<err, canvas_open>>
  /\ UNCHANGED <<inputs, spacer, grid, idx, printed, buffers, placed, wrap,
                 fill_color, drawn, saves>>

\* A variant that opens the canvas without looking for bg.png first.
CheckBackgroundUnchecked ==
  /\ pc = "background"
  /\ canvas_open' = TRUE
  /\ pc' = "spacer"
  /\ UNCHANGED <<inputs, err, colors, spacer, grid, idx, printed, buffers,
                 placed, wrap, fill_color, drawn, saves>>

\* ------------------------------------- lines 72-78: background, canvas
CheckBackground ==
  /\ pc = "background"
  /\ IF ~bg.exists
       THEN Raise("FileNotFoundError")
       ELSE /\ canvas_open' = TRUE
            /\ pc' = "spacer"
            /\ UNCHANGED err
  /\ UNCHANGED <<inputs, colors, spacer, grid, idx, printed, buffers, placed,
                 wrap, fill_color, drawn, saves>>

\* ------------------------------------------------ lines 80-86: spacer
spacer_y == canvas_height - SpacerOffset

DrawSpacer ==
  /\ pc = "spacer"
  /\ spacer' = Append(spacer, [stroke_color |-> spacer_color,
                               from |-> <<0, spacer_y>>,
                               to |-> <<canvas_width, spacer_y>>])
  /\ pc' = "grid"
  /\ UNCHANGED <<inputs, err, canvas_open, colors, grid, idx, printed, buffers,
                 placed, wrap, fill_color, drawn, saves>>

\* -------------------------------------------------- lines 88-94: grid
Cols(n) == IF n > 1 THEN 2 ELSE 1
\* A variant that rounds the row count down.
RowsFloor(n, c) == n \div c
Rows(n, c) == (n + c - 1) \div c

ComputeGrid ==
  /\ pc = "grid"
  /\ cols' = Cols(item_count)
  /\ rows' = Rows(item_count, cols')
  /\ item_width' = canvas_width \div cols'
  /\ item_height' = (canvas_height - SpacerOffset) \div rows'
  /\ idx' = 0
  /\ pc' = "items"
  /\ UNCHANGED <<inputs, err, canvas_open, colors, spacer, printed, buffers,
                 placed, wrap, fill_color, drawn, saves>>

\* ---------------------------------------------- lines 96-122: items

\* img.transform(resize="WxH>"): shrink to fit inside W x H keeping the aspect
\* ratio (the limiting side becomes the box side, the other is rounded to the
\* nearest pixel, at least 1); an image already inside the box is left alone.
Resize(size, w, h) ==
  LET w0 == size[1]
      h0 == size[2]
  IN IF w0 <= w /\ h0 <= h
       THEN size
       ELSE IF w * h0 <= h * w0
              THEN <<Min(w0, w), Min(h0, Max((2 * w * h0 + w0) \div (2 * w0), 1))>>
              ELSE <<Min(w0, Max((2 * h * w0 + h0) \div (2 * h0), 1)), Min(h0, h)>>

\* A variant that adds the whole padding after halving the free space.
PlaceXPadAfter(i, w) == (i % cols) * item_width + (item_width - w) \div 2 + PadX

\* lines 115-118
PlaceX(i, w) == (i % cols) * item_width + (item_width - w + PadX) \div 2
PlaceY(i, h) == (i \div cols) * item_height + (item_height - h + PadY) \div 2

InLoop == pc = "items" /\ idx < item_count
item == item_numbers[idx + 1]
Message(kind) == [kind |-> kind, idx |-> idx]

\* A variant in which a missing file ends the run instead of being skipped.
ItemMissingAborts ==
  /\ InLoop
  /\ item.status = "missing"
  /\ printed' = Append(printed, Message("warning"))
  /\ Raise("FileNotFoundError")
  /\ UNCHANGED <<inputs, colors, spacer, grid, idx, buffers, placed, wrap,
                 fill_color, drawn, saves>>

\* lines 99-101: the file is absent
ItemMissing ==
  /\ InLoop
  /\ item.status = "missing"
  /\ printed' = Append(printed, Message("warning"))
  /\ idx' = idx + 1
  /\ UNCHANGED <<inputs, pc, err, canvas_open, colors, spacer, grid, buffers,
                 placed, wrap, fill_color, drawn, saves>>

\* lines 104-106 with 46-48: the converter exits non-zero, before any Image
\* is created
ItemConvertError ==
  /\ InLoop
  /\ item.status = "convert_error"
  /\ printed' = Append(printed, Message("error"))
  /\ idx' = idx + 1
  /\ UNCHANGED <<inputs, pc, err, canvas_open, colors, spacer, grid, buffers,
                 placed, wrap, fill_color, drawn, saves>>

\* lines 40-43, 109, 121: a library call on the opened Image raises; nothing
\* catches it and nothing closes the Image
ItemRaises ==
  /\ InLoop
  /\ item.status \in {"trim_raises", "transform_raises", "composite_raises"}
  /\ opened' = opened \cup {idx}
  /\ printed' = IF item.status = "composite_raises"
                  THEN Append(printed, Message("resized"))
                  ELSE printed
  /\ Raise("WandError")
  /\ UNCHANGED <<inputs, colors, spacer, grid, idx, closed, placed, wrap,
                 fill_color, drawn, saves>>

\* lines 104-122: converted, resized, composited, closed
ItemComposite ==
  /\ InLoop
  /\ item.status = "ok"
  /\ LET size == Resize(item.size, item_width, item_height)
     IN placed' = Append(placed, [idx |-> idx,
                                  left |-> PlaceX(idx, size[1]),
                                  top |-> PlaceY(idx, size[2]),
                                  width |-> size[1],
                                  height |-> size[2]])
  /\ opened' = opened \cup {idx}
  /\ closed' = closed \cup {idx}
  /\ printed' = Append(printed, Message("resized"))
  /\ idx' = idx + 1
  /\ UNCHANGED <<inputs, pc, err, canvas_open, colors, spacer, grid, wrap,
                 fill_color, drawn, saves>>

\* -------------------------------------------- lines 124-145: caption
max_caption_width == canvas_width - CaptionMargin

RECURSIVE SumWidths(_)
SumWidths(line) == IF line = <<>> THEN 0 ELSE Head(line) + SumWidths(Tail(line))

\* draw.get_font_metrics(canvas, line).text_width: the words and the single
\* spaces between them
text_width(line) ==
  IF line = <<>> THEN 0 ELSE SumWidths(line) + SpaceWidth * (Len(line) - 1)

\* A variant that measures the line before the word is added to it.
FitsBeforeWord(test_line) ==
  text_width(SubSeq(test_line, 1, Len(test_line) - 1)) <= max_caption_width

Fits(test_line) == text_width(test_line) <= max_caption_width

\* lines 125-135: the item loop is over
StartCaption ==
  /\ pc = "items"
  /\ idx = item_count
  /\ fill_color' = caption_color
  /\ lines' = <<>>
  /\ current_line' = <<>>
  /\ widx' = 0
  /\ pc' = "wrap"
  /\ UNCHANGED <<inputs, err, canvas_open, colors, spacer, grid, idx, printed,
                 buffers, placed, drawn, saves>>

\* lines 137-143: one word
WrapWord ==
  /\ pc = "wrap"
  /\ widx < Len(caption)
  /\ LET word == caption[widx + 1]
         test_line == Append(current_line, word)
     IN IF Fits(test_line)
          THEN /\ current_line' = test_line
               /\ lines' = lines
          ELSE /\ lines' = Append(lines, current_line)
               /\ current_line' = <<word>>
  /\ widx' = widx + 1
  /\ UNCHANGED <<inputs, pc, err, canvas_open, colors, spacer, grid, idx,
                 printed, buffers, placed, fill_color, drawn, saves>>

\* lines 144-145
WrapEnd ==
  /\ pc = "wrap"
  /\ widx = Len(caption)
  /\ lines' = IF current_line # <<>> THEN Append(lines, current_line) ELSE lines
  /\ pc' = "text"
  /\ UNCHANGED <<inputs, err, canvas_open, colors, spacer, grid, idx, printed,
                 buffers, placed, current_line, widx, fill_color, drawn, saves>>

\* --------------------------------------------- lines 147-158: text
Reverse(s) == [i \in 1..Len(s) |-> s[Len(s) + 1 - i]]

\* A variant that draws the lines first to last while still moving upward.
TextCallsForward(ls) ==
  IF Len(ls) = 1
    THEN <<[x |-> canvas_width \div 2, y |-> canvas_height - SingleLineOffset,
            body |-> ls[1]]>>
    ELSE [i \in 1..Len(ls) |->
            [x |-> canvas_width \div 2,
             y |-> canvas_height - MultiLineOffset - line_spacing * (i - 1),
             body |-> ls[i]]]

\* the draw.text calls of lines 148-156, in call order
TextCalls(ls) ==
  IF Len(ls) = 1
    THEN <<[x |-> canvas_width \div 2, y |-> canvas_height - SingleLineOffset,
            body |-> ls[1]]>>
    ELSE [i \in 1..Len(ls) |->
            [x |-> canvas_width \div 2,
             y |-> canvas_height - MultiLineOffset - line_spacing * (i - 1),
             body |-> Reverse(ls)[i]]]

DrawCaption ==
  /\ pc = "text"
  /\ drawn' = TextCalls(lines)
  /\ pc' = "save"
  /\ UNCHANGED <<inputs, err, canvas_open, colors, spacer, grid, idx, printed,
                 buffers, placed, wrap, fill_color, saves>>

\* --------------------------------------------- lines 160-172: save
Save ==
  /\ pc = "save"
  /\ saves' = saves + 1
  /\ printed' = Append(printed, [kind |-> "saved", idx |-> item_count])
  /\ canvas_open' = FALSE
  /\ pc' = "done"
  /\ UNCHANGED <<inputs, err, colors, spacer, grid, idx, buffers, placed, wrap,
                 fill_color, drawn>>

\* a drawing or encoding call of lines 126-171 raises
LibraryRaises ==
  /\ pc \in {"text", "save"}
  /\ Raise("WandError")
  /\ UNCHANGED <<inputs, colors, spacer, grid, idx, printed, buffers, placed,
                 wrap, fill_color, drawn, saves>>

Next ==
  \/ CheckEvent
  \/ CheckBackground
  \/ DrawSpacer
  \/ ComputeGrid
  \/ ItemMissing
  \/ ItemConvertError
  \/ ItemRaises
  \/ ItemComposite
  \/ StartCaption
  \/ WrapWord
  \/ WrapEnd
  \/ DrawCaption
  \/ Save
  \/ LibraryRaises

Spec == Init /\ [][Next]_vars

\* ============================================================ claims
Terminated == pc \in {"done", "failed"}
GridComputed == pc \in {"items", "wrap", "text", "save", "done"}
Wrapped == pc \in {"text", "save", "done"}

\* 0-based indices below n of the items whose status is in S, in input order
IndicesOf(S, n) ==
  SelectSeq([i \in 1..n |-> i - 1], LAMBDA i : item_numbers[i + 1].status \in S)

OnlySkips ==
  \A i \in 1..item_count : item_numbers[i].status \in {"missing", "convert_error", "ok"}

\* C1: when every item is either missing, rejected by the converter or fine,
\* the item loop never ends the run: the items are visited in input order, each
\* missing or rejected item gets its message, exactly the fine ones are
\* composited in input order, and a run that ends normally has saved once.
C1_SkipAndContinue ==
  (EventKnown /\ bg.exists /\ OnlySkips) =>
     /\ pc = "failed" => idx = item_count
     /\ pc \in {"wrap", "text", "save", "done"} => idx = item_count
     /\ [k \in 1..Len(placed) |-> placed[k].idx] = IndicesOf({"ok"}, idx)
     /\ SelectSeq(printed, LAMBDA m : m.kind \in {"warning", "error"})
          = [k \in 1..Len(IndicesOf({"missing", "convert_error"}, idx)) |->
               LET i == IndicesOf({"missing", "convert_error"}, idx)[k]
               IN [kind |-> IF item_numbers[i + 1].status = "missing"
                              THEN "warning" ELSE "error",
                   idx |-> i]]
     /\ saves = IF pc = "done" THEN 1 ELSE 0

C1_Witness ==
  /\ pc = "done"
  /\ saves = 1
  /\ item_count >= 3
  /\ \E i, j, k \in 1..item_count :
       /\ item_numbers[i].status = "missing"
       /\ item_numbers[j].status = "convert_error"
       /\ item_numbers[k].status = "ok"
  /\ Len(placed) >= 1

\* C2: an unknown event code (None included) or a missing bg.png ends the run
\* with ValueError, respectively FileNotFoundError, the event check first, and
\* nothing is opened, drawn, converted, composited or saved.
C2_FatalInputs ==
  (~EventKnown \/ ~bg.exists) =>
     /\ pc \in {"event", "background", "failed"}
     /\ ~EventKnown => pc # "background"
     /\ pc = "failed" => err = (IF ~EventKnown THEN "ValueError" ELSE "FileNotFoundError")
     /\ ~canvas_open
     /\ spacer = <<>>
     /\ idx = 0 /\ printed = <<>> /\ opened = {} /\ placed = <<>>
     /\ drawn = <<>>
     /\ saves = 0

C2_Witness ==
  /\ pc = "failed"
  /\ event_code = None
  /\ ~bg.exists
  /\ err = "ValueError"

\* C3: when the run has ended, every Image opened for an item has been closed.
C3_BuffersClosed == Terminated => opened \subseteq closed

\* C4: the grid has at least one column and rows = ceil(N / columns); one item
\* gives 1 x 1 and four items give 2 x 2.
C4_Grid ==
  GridComputed =>
     /\ cols >= 1
     /\ (rows - 1) * cols < item_count
     /\ item_count <= rows * cols
     /\ item_count = 1 => (cols = 1 /\ rows = 1)
     /\ item_count = 4 => (cols = 2 /\ rows = 2)

C4_Witness == pc = "done" /\ item_count = 3 /\ cols = 2 /\ rows = 2

\* C5: no line of the wrap loop is wider than the maximum, except a line that
\* is a single word wider than the maximum.
C5_NoOverlongLine ==
  \A k \in 1..Len(lines) :
     text_width(lines[k]) > max_caption_width => Len(lines[k]) = 1

C5_Witness ==
  /\ pc = "text"
  /\ \E k \in 1..Len(lines) : Len(lines[k]) >= 2
  /\ \E k \in 1..Len(lines) : text_width(lines[k]) > max_caption_width

RECURSIVE Flatten(_)
Flatten(ls) == IF ls = <<>> THEN <<>> ELSE Head(ls) \o Flatten(Tail(ls))

\* C6: the wrap loop yields one or more lines, none empty, whose words in line
\* order are the caption's words in their order.
C6_LinesAreTheWords ==
  Wrapped =>
     /\ Len(lines) >= 1
     /\ \A k \in 1..Len(lines) : lines[k] # <<>>
     /\ Flatten(lines) = caption

CellX(p) == (p.idx % cols) * item_width
CellY(p) == (p.idx \div cols) * item_height

C8_ReadingOrder ==
  pc \in {"save", "done"} =>
     LET k == Len(lines)
     IN /\ Len(drawn) = k
        /\ \A c \in 1..k : drawn[c].x = canvas_width \div 2
        /\ k = 1 => (drawn[1].y = canvas_height - 60 /\ drawn[1].body = lines[1])
        /\ k >= 2 =>
             /\ \A j \in 1..k :
                  /\ drawn[k - j + 1].body = lines[j]
                  /\ drawn[k - j + 1].y = canvas_height - 40 - 40 * (k - j)
             /\ \A i, j \in 1..k : i < j => drawn[k - i + 1].y < drawn[k - j + 1].y

C8_Witness ==
  /\ pc = "save"
  /\ Len(lines) = 3
  /\ lines[1] # lines[2] /\ lines[2] # lines[3] /\ lines[1] # lines[3]

\* C9: the spacer is stroked with the event's spacer_color (default "gray")
\* and the caption is filled with its caption_color (default "black").
C9_ColoursNotExchanged ==
  /\ spacer # <<>> =>
       spacer[1].stroke_color = Get(events[event_code], "spacer_color", "gray")
  /\ fill_color # None =>
       fill_color = Get(events[event_code], "caption_color", "black")

\* C10: a composited item with index idx is at most item_width x item_height,
\* sits in cell (idx mod cols, idx div cols) with row < rows, shares its cell
\* with no other item, and its rectangle lies inside that cell, inside the
\* canvas and above the spacer line.
C10_InsideCell ==
  /\ \A k \in 1..Len(placed) :
       LET p == placed[k]
       IN /\ p.idx \div cols < rows
          /\ p.width <= item_width /\ p.height <= item_height
          /\ CellX(p) <= p.left /\ p.left + p.width <= CellX(p) + item_width
          /\ CellY(p) <= p.top /\ p.top + p.height <= CellY(p) + item_height
          /\ 0 <= p.left /\ p.left + p.width <= canvas_width
          /\ 0 <= p.top /\ p.top + p.height <= canvas_height - 150
  /\ \A k, l \in 1..Len(placed) :
       k # l => <<CellX(placed[k]), CellY(placed[k])>> # <<CellX(placed[l]), CellY(placed[l])>>

====
